---- MODULE Spec2Model ----
(***************************************************************************)
(* Model of exp2/script.py: the TOON-vs-JSON comparison run.               *)
(*                                                                         *)
(* Texts (questions, responses) are sequences of atoms, the atom " "       *)
(* being a whitespace character.  Times are integer hundredths of a        *)
(* second.  A file name is the sequence of its dot-separated components    *)
(* (<<"data", "json">> is data.json, <<"", "json">> is .json).             *)
(***************************************************************************)
EXTENDS Integers, Sequences, FiniteSets, TLC

----------------------------------------------------------------------------
(* Bounds of the model *)

MaxTokens == 2          \* question tokens on the command line
MaxModels == 2          \* models returned by the listing endpoint
MaxOvershoot == 1       \* hundredths by which time.sleep may oversleep
MaxLatency == 60        \* latencies enumerated for the verdict (hundredths)

(* Program constants *)

SleepDelay == 200           \* time.sleep(2)
SimilarThreshold == 50      \* abs(time_diff) < 0.5
FallbackModel == "gemini-pro"
DefaultOutputFile == <<"test_results", "json">>

----------------------------------------------------------------------------
(* Text helpers *)

Space == " "

\* str.strip(): drop leading and trailing whitespace
RECURSIVE LStrip(_)
LStrip(s) == IF s # <<>> /\ Head(s) = Space THEN LStrip(Tail(s)) ELSE s

RECURSIVE RStrip(_)
RStrip(s) ==
    IF s # <<>> /\ s[Len(s)] = Space THEN RStrip(SubSeq(s, 1, Len(s) - 1)) ELSE s

\* input() used without .strip()
NoStrip(s) == s

Strip(s) == RStrip(LStrip(s))

\* ' '.join(tokens)
RECURSIVE Join(_)
Join(tokens) ==
    IF tokens = <<>> THEN <<>>
    ELSE IF Len(tokens) = 1 THEN tokens[1]
    ELSE tokens[1] \o <<Space>> \o Join(Tail(tokens))

\* str.lower() on the atoms a response is made of
LowerAtom(a) ==
    CASE a = "Yes" -> "yes"
      [] a = "Error: " -> "error: "
      [] a = "Timeout" -> "timeout"
      [] OTHER -> a

Lower(s) == [i \in 1..Len(s) |-> LowerAtom(s[i])]

----------------------------------------------------------------------------
(* Paths: pathlib.Path reduced to parent directory and file name *)

MkPath(dir, name) == [parent |-> dir, name |-> name]

\* PurePath.suffix: the part after the last dot, unless that dot is the
\* first or the last character of the name
Suffix(name) ==
    IF /\ Len(name) >= 2
       /\ name[Len(name)] # ""
       /\ ~(Len(name) = 2 /\ name[1] = "")
    THEN <<name[Len(name)]>>
    ELSE <<>>

\* PurePath.stem: the name without its suffix
Stem(name) == IF Suffix(name) = <<>> THEN name ELSE SubSeq(name, 1, Len(name) - 1)

\* self.json_file_path.stem + "_output.toon"
ToonName(name) ==
    LET st == Stem(name)
        k  == Len(st)
    IN  SubSeq(st, 1, k - 1) \o <<st[k] \o "_output", "toon">>

\* self.json_file_path.parent / output_name
ToonPath(p) == MkPath(p.parent, ToonName(p.name))

\* self.json_file_path.parent / output_file
OutputPath(p) == MkPath(p.parent, DefaultOutputFile)

----------------------------------------------------------------------------
(* File contents *)

Absent == [kind |-> "absent"]
EmptyFile == [kind |-> "empty"]
PartialFile == [kind |-> "partial"]
Dataset(b) == [kind |-> "dataset", body |-> b]
ToonOf(c) == [kind |-> "toon", of |-> c]
ResultFile(r) == [kind |-> "results", record |-> r]

InputPaths ==
    { MkPath(".", <<"data", "json">>),
      MkPath("sub", <<"data", "json">>),
      MkPath(".", <<"test_results", "json">>),
      MkPath(".", <<"data", "txt">>),
      MkPath(".", <<"", "json">>),
      MkPath(".", <<"missing", "json">>) }

AllPaths ==
    InputPaths \cup {ToonPath(p) : p \in InputPaths}
               \cup {OutputPath(p) : p \in InputPaths}

----------------------------------------------------------------------------
(* Model listing, as seen by the filter of the start-up discovery *)

NoAttr == "<no attribute>"
NoneValue == "<None>"

ModelNames == {NoAttr, NoneValue, "models/gemini-a", "models/Gemini-B", "models/embed-1"}

\* supported_generation_methods: missing, None, [], a list with
\* 'generateContent', a non-empty list without it
MethodValues == {NoAttr, NoneValue, "empty", "generateContent", "embedContent"}

ModelObjects == [name : ModelNames, methods : MethodValues]

\* 'gemini' in model.name.lower()
ContainsGemini(name) == name \in {"models/gemini-a", "models/Gemini-B"}

\* getattr(model, 'supported_generation_methods', [])
GetMethods(m) == IF m.methods = NoAttr THEN "empty" ELSE m.methods

\* the for loop of the discovery: the names collected so far, or the
\* exception raised by model.name.lower() / 'generateContent' in None
RECURSIVE FilterGemini(_, _)
FilterGemini(ms, acc) ==
    IF ms = <<>> THEN [raised |-> FALSE, names |-> acc]
    ELSE LET m == Head(ms) IN
         IF m.name = NoAttr THEN FilterGemini(Tail(ms), acc)
         ELSE IF m.name = NoneValue THEN [raised |-> TRUE, names |-> acc]
         ELSE IF ~ContainsGemini(m.name) THEN FilterGemini(Tail(ms), acc)
         ELSE IF GetMethods(m) = NoneValue THEN [raised |-> TRUE, names |-> acc]
         ELSE IF GetMethods(m) \in {"generateContent", "empty"}
              THEN FilterGemini(Tail(ms), Append(acc, m.name))
         ELSE FilterGemini(Tail(ms), acc)

ListingFailed == [ok |-> FALSE, models |-> <<>>]
Listed(ms) == [ok |-> TRUE, models |-> ms]

\* discovery that falls back to the static identifier whenever no Gemini
\* model was collected
ResolveModelStatic(listing) ==
    IF ~listing.ok THEN FallbackModel
    ELSE LET f == FilterGemini(listing.models, <<>>) IN
         IF f.raised \/ f.names = <<>> THEN FallbackModel ELSE f.names[1]

\* the value bound to AVAILABLE_MODEL by the try/except of the discovery
ResolveModel(listing) ==
    IF ~listing.ok THEN FallbackModel
    ELSE LET f == FilterGemini(listing.models, <<>>) IN
         IF f.raised THEN FallbackModel
         ELSE IF f.names # <<>> THEN f.names[1]
         ELSE IF listing.models = <<>> THEN FallbackModel
         ELSE IF listing.models[1].name = NoAttr THEN FallbackModel
         ELSE listing.models[1].name

SeqsUpTo(S, n) == UNION {[1..k -> S] : k \in 0..n}

AllListings == {ListingFailed} \cup {Listed(ms) : ms \in SeqsUpTo(ModelObjects, MaxModels)}

\* the listings enumerated in the full run
RunListings ==
    { ListingFailed,
      Listed(<<[name |-> "models/embed-1", methods |-> "embedContent"],
               [name |-> "models/gemini-a", methods |-> "generateContent"]>>),
      Listed(<<[name |-> "models/embed-1", methods |-> "embedContent"]>>) }

----------------------------------------------------------------------------
(* Query Dispatcher *)

None == [kind |-> "none"]
NoPath == MkPath("", <<>>)

Durations == {0, SimilarThreshold - 1, SimilarThreshold}
RawResponses == {<<"Yes">>, <<Space, "yes", Space>>}
\* str(e) of the exceptions raised by generate_content
Errors == {<<"Timeout">>, <<>>}

QueryResult(text, t) == [kind |-> "result", response |-> text, time |-> t]

\* query_llm, successful call: (response.text.strip(), end_time - start_time)
QueryOk(raw, start_time, end_time) == QueryResult(Strip(raw), end_time - start_time)

\* a failed leg reported with a sentinel instead of 0.0
QueryFailedSentinel(e) == QueryResult(<<"Error: ">> \o e, -1)

\* query_llm, except Exception: (f"Error: {str(e)}", 0.0)
QueryFailed(e) == QueryResult(<<"Error: ">> \o e, 0)

\* the dictionary returned by run_test
Record(q, jr, tr) ==
    [question |-> q,
     json_response |-> jr.response, json_time |-> jr.time,
     toon_response |-> tr.response, toon_time |-> tr.time]

----------------------------------------------------------------------------
(* Reporter verdicts *)

\* results['json_response'].lower() == results['toon_response'].lower()
IdentityVerdict(r) ==
    IF Lower(r.json_response) = Lower(r.toon_response) THEN "IDENTICAL" ELSE "DIFFER"

Abs(n) == IF n < 0 THEN -n ELSE n

\* the performance comparison with an inclusive threshold
LatencyVerdictInclusive(json_time, toon_time) ==
    LET time_diff == json_time - toon_time IN
    IF Abs(time_diff) <= SimilarThreshold THEN "SIMILAR"
    ELSE IF time_diff > 0 THEN "TOON_FASTER"
    ELSE "JSON_FASTER"

\* the performance comparison of display_results
LatencyVerdict(json_time, toon_time) ==
    LET time_diff == json_time - toon_time IN
    IF Abs(time_diff) < SimilarThreshold THEN "SIMILAR"
    ELSE IF time_diff > 0 THEN "TOON_FASTER"
    ELSE "JSON_FASTER"

----------------------------------------------------------------------------
(* State *)

VARIABLES
    pc,               \* position of the process
    GOOGLE_API_KEY,   \* TRUE iff the credential is configured
    models,           \* result of client.models.list(), None before discovery
    AVAILABLE_MODEL,
    json_file,        \* sys.argv[1]
    question,
    questionSource,   \* "none", "argv" or "prompt"
    typed,            \* <<>> before input() returns, then <<the line entered>>
    json_file_path, toon_file_path, json_content, toon_content,
    json_result, toon_result,   \* (response, time) of each leg of run_test
    results,          \* the Comparison Record
    printed,          \* the verdicts printed by display_results
    fs,               \* the file system: path -> content
    writes,           \* paths written during this run
    now,              \* time.time()
    dispatches,       \* log of the generate_content calls
    convertCalls,     \* number of subprocess.run invocations
    exitStatus,       \* <<>> while running, <<status>> after exit
    interrupted,      \* a KeyboardInterrupt was delivered
    failure           \* cause of a fatal exit ("interrupt:<position>" for an
                      \* interrupt), "none" otherwise

startupVars == <<GOOGLE_API_KEY, models, AVAILABLE_MODEL>>
argVars == <<json_file, question, questionSource, typed>>
testVars == <<json_file_path, toon_file_path, json_content, toon_content>>
runVars == <<json_result, toon_result, results, printed>>
envVars == <<fs, writes, now, dispatches, convertCalls>>
exitVars == <<exitStatus, interrupted, failure>>

vars == <<pc, startupVars, argVars, testVars, runVars, envVars, exitVars>>

QuestionAtoms == {Space, "q"}
Tokens == SeqsUpTo(QuestionAtoms, 1)
TypedInputs == SeqsUpTo(QuestionAtoms, MaxTokens)

\* sys.argv[1:]
Argvs ==
    {<<>>} \cup
    {<<p>> \o toks : p \in InputPaths, toks \in SeqsUpTo(Tokens, MaxTokens)}

InitialFs(oldResults) ==
    [p \in AllPaths |->
        CASE p = MkPath(".", <<"data", "json">>) -> Dataset("d1")
          [] p = MkPath("sub", <<"data", "json">>) -> Dataset("d2")
          [] p = MkPath(".", <<"data", "txt">>) -> Dataset("d1")
          [] p = MkPath(".", <<"", "json">>) -> Dataset("d1")
          [] p = MkPath(".", <<"test_results", "json">>) ->
                IF oldResults THEN Dataset("old") ELSE Absent
          [] OTHER -> Absent]

Init ==
    /\ pc = "start"
    /\ GOOGLE_API_KEY \in BOOLEAN
    /\ models = None
    /\ AVAILABLE_MODEL = NoneValue
    /\ json_file = NoPath
    /\ question = <<>>
    /\ questionSource = "none"
    /\ typed = <<>>
    /\ json_file_path = NoPath
    /\ toon_file_path = NoPath
    /\ json_content = None
    /\ toon_content = None
    /\ json_result = None
    /\ toon_result = None
    /\ results = None
    /\ printed = None
    /\ \E oldResults \in BOOLEAN : fs = InitialFs(oldResults)
    /\ writes = {}
    /\ now = 0
    /\ dispatches = <<>>
    /\ convertCalls = 0
    /\ exitStatus = <<>>
    /\ interrupted = FALSE
    /\ failure = "none"

\* sys.exit(status) / falling off the end of the script
Exit(status, cause) ==
    /\ pc' = "exit"
    /\ exitStatus' = <<status>>
    /\ failure' = cause
    /\ UNCHANGED interrupted

----------------------------------------------------------------------------
(* Start-up: credential check and model discovery (module level) *)

LoadCredential ==
    /\ pc = "start"
    /\ IF ~GOOGLE_API_KEY
       THEN Exit(1, "credential")
       ELSE pc' = "discover" /\ UNCHANGED exitVars
    /\ UNCHANGED <<startupVars, argVars, testVars, runVars, envVars>>

Discover(listings) ==
    /\ pc = "discover"
    /\ \E listing \in listings :
          /\ models' = listing
          /\ AVAILABLE_MODEL' = ResolveModel(listing)
    /\ pc' = "main"
    /\ UNCHANGED <<GOOGLE_API_KEY, argVars, testVars, runVars, envVars, exitVars>>

DiscoverModels == Discover(RunListings)

----------------------------------------------------------------------------
(* main(): arguments and question *)

ParseArgs ==
    /\ pc = "main"
    /\ \E argv \in Argvs :
          IF Len(argv) < 1
          THEN /\ Exit(1, "usage")
               /\ UNCHANGED argVars
          ELSE /\ json_file' = argv[1]
               /\ IF Len(argv) >= 2
                  THEN /\ question' = Join(Tail(argv))
                       /\ questionSource' = "argv"
                       /\ pc' = "init_test"
                  ELSE /\ UNCHANGED <<question, questionSource>>
                       /\ pc' = "prompt"
               /\ UNCHANGED <<typed, exitVars>>
    /\ UNCHANGED <<startupVars, testVars, runVars, envVars>>

ReadQuestion ==
    /\ pc = "prompt"
    /\ \E line \in TypedInputs :
          LET q == Strip(line) IN
          /\ typed' = <<line>>
          /\ IF q = <<>>
             THEN /\ Exit(1, "empty_question")
                  /\ UNCHANGED <<question, questionSource>>
             ELSE /\ question' = q
                  /\ questionSource' = "prompt"
                  /\ pc' = "init_test"
                  /\ UNCHANGED exitVars
    /\ UNCHANGED <<startupVars, json_file, testVars, runVars, envVars>>

----------------------------------------------------------------------------
(* TOONParsingTest: constructor, conversion, loading *)

InitTest ==
    /\ pc = "init_test"
    /\ json_file_path' = json_file
    /\ IF fs[json_file] = Absent
       THEN Exit(1, "file_not_found")
       ELSE IF Suffix(json_file.name) # <<"json">>
       THEN Exit(1, "bad_extension")
       ELSE pc' = "convert" /\ UNCHANGED exitVars
    /\ UNCHANGED <<startupVars, argVars, toon_file_path, json_content, toon_content,
                   runVars, envVars>>

ConvertToToon ==
    /\ pc = "convert"
    /\ toon_file_path' = ToonPath(json_file_path)
    /\ convertCalls' = convertCalls + 1
    /\ \E outcome \in {"ok", "CalledProcessError", "FileNotFoundError", "OSError"} :
          IF outcome = "ok"
          THEN /\ fs' = [fs EXCEPT ![ToonPath(json_file_path)] = ToonOf(fs[json_file_path])]
               /\ writes' = writes \cup {ToonPath(json_file_path)}
               /\ pc' = "load_json"
               /\ UNCHANGED exitVars
          ELSE /\ Exit(1, "converter")
               /\ UNCHANGED <<fs, writes>>
    /\ UNCHANGED <<startupVars, argVars, json_file_path, json_content, toon_content,
                   runVars, now, dispatches>>

LoadJson ==
    /\ pc = "load_json"
    /\ \/ /\ json_content' = fs[json_file_path]
          /\ pc' = "load_toon"
          /\ UNCHANGED exitVars
       \/ /\ Exit(1, "read_json")
          /\ UNCHANGED json_content
    /\ UNCHANGED <<startupVars, argVars, json_file_path, toon_file_path, toon_content,
                   runVars, envVars>>

LoadToon ==
    /\ pc = "load_toon"
    /\ \/ /\ toon_content' = fs[toon_file_path]
          /\ pc' = "query_json"
          /\ UNCHANGED exitVars
       \/ /\ Exit(1, "read_toon")
          /\ UNCHANGED toon_content
    /\ UNCHANGED <<startupVars, argVars, json_file_path, toon_file_path, json_content,
                   runVars, envVars>>

----------------------------------------------------------------------------
(* run_test: the two dispatches and the pause between them *)

\* query_llm called at time start_time: every outcome of the network call,
\* with the time at which the call returns or raises
QueryLLM(data_content, data_format, q, start_time) ==
    { [result |-> QueryOk(raw, start_time, start_time + d),
       returned |-> start_time + d,
       call |-> [content |-> data_content, format |-> data_format, question |-> q,
                 model |-> AVAILABLE_MODEL, start |-> start_time, failed |-> FALSE]]
        : raw \in RawResponses, d \in Durations }
    \cup
    { [result |-> QueryFailed(e),
       returned |-> start_time + d,
       call |-> [content |-> data_content, format |-> data_format, question |-> q,
                 model |-> AVAILABLE_MODEL, start |-> start_time, failed |-> TRUE]]
        : e \in Errors, d \in Durations }

QueryJson ==
    /\ pc = "query_json"
    /\ \E o \in QueryLLM(json_content, "JSON", question, now) :
          /\ json_result' = o.result
          /\ now' = o.returned
          /\ dispatches' = Append(dispatches, o.call)
    /\ pc' = "sleep"
    /\ UNCHANGED <<startupVars, argVars, testVars, toon_result, results, printed,
                   fs, writes, convertCalls, exitVars>>

\* a pause taken only after a successful JSON leg
SleepAfterSuccessOnly ==
    /\ pc = "sleep"
    /\ \E over \in 0..MaxOvershoot :
          now' = now + (IF dispatches[1].failed THEN 0 ELSE SleepDelay + over)
    /\ pc' = "query_toon"
    /\ UNCHANGED <<startupVars, argVars, testVars, runVars,
                   fs, writes, dispatches, convertCalls, exitVars>>

\* time.sleep(2)
Sleep ==
    /\ pc = "sleep"
    /\ \E over \in 0..MaxOvershoot : now' = now + SleepDelay + over
    /\ pc' = "query_toon"
    /\ UNCHANGED <<startupVars, argVars, testVars, runVars,
                   fs, writes, dispatches, convertCalls, exitVars>>

\* the second leg dispatched with the JSON content again
QueryToonJsonContent ==
    /\ pc = "query_toon"
    /\ \E o \in QueryLLM(json_content, "TOON", question, now) :
          /\ toon_result' = o.result
          /\ now' = o.returned
          /\ dispatches' = Append(dispatches, o.call)
    /\ pc' = "assemble"
    /\ UNCHANGED <<startupVars, argVars, testVars, json_result, results, printed,
                   fs, writes, convertCalls, exitVars>>

QueryToon ==
    /\ pc = "query_toon"
    /\ \E o \in QueryLLM(toon_content, "TOON", question, now) :
          /\ toon_result' = o.result
          /\ now' = o.returned
          /\ dispatches' = Append(dispatches, o.call)
    /\ pc' = "assemble"
    /\ UNCHANGED <<startupVars, argVars, testVars, json_result, results, printed,
                   fs, writes, convertCalls, exitVars>>

\* the return statement of run_test
Assemble ==
    /\ pc = "assemble"
    /\ results' = Record(question, json_result, toon_result)
    /\ pc' = "display"
    /\ UNCHANGED <<startupVars, argVars, testVars, json_result, toon_result, printed,
                   envVars, exitVars>>

----------------------------------------------------------------------------
(* Reporter: display_results and save_results *)

DisplayResults ==
    /\ pc = "display"
    /\ \/ /\ printed' = [identity |-> IdentityVerdict(results),
                         latency |-> LatencyVerdict(results.json_time, results.toon_time)]
          /\ pc' = "save_open"
          /\ UNCHANGED exitVars
       \/ /\ Exit(1, "display")        \* print raises
          /\ UNCHANGED printed
    /\ UNCHANGED <<startupVars, argVars, testVars, json_result, toon_result, results,
                   envVars>>

\* open(output_path, 'w'): creates or truncates the file
SaveOpen ==
    /\ pc = "save_open"
    /\ \/ /\ fs' = [fs EXCEPT ![OutputPath(json_file_path)] = EmptyFile]
          /\ writes' = writes \cup {OutputPath(json_file_path)}
          /\ pc' = "save_dump"
          /\ UNCHANGED exitVars
       \/ /\ Exit(1, "save_open")
          /\ UNCHANGED <<fs, writes>>
    /\ UNCHANGED <<startupVars, argVars, testVars, runVars, now, dispatches, convertCalls>>

\* json.dump(results, f, indent=2) and the close of the with block
SaveDump ==
    /\ pc = "save_dump"
    /\ \/ /\ fs' = [fs EXCEPT ![OutputPath(json_file_path)] = ResultFile(results)]
          /\ pc' = "save_print"
          /\ UNCHANGED exitVars
       \/ /\ \E left \in {EmptyFile, PartialFile} :
                fs' = [fs EXCEPT ![OutputPath(json_file_path)] = left]
          /\ Exit(1, "save_dump")
    /\ UNCHANGED <<startupVars, argVars, testVars, runVars, writes, now, dispatches,
                   convertCalls>>

\* print(f"Results saved to: ...") and the normal end of main
SavePrint ==
    /\ pc = "save_print"
    /\ \/ Exit(0, "none")
       \/ Exit(1, "save_print")
    /\ UNCHANGED <<startupVars, argVars, testVars, runVars, envVars>>

----------------------------------------------------------------------------
(* KeyboardInterrupt *)

\* positions inside the try block of main
TryBlock ==
    {"init_test", "convert", "load_json", "load_toon", "query_json", "sleep",
     "query_toon", "assemble", "display", "save_open", "save_dump", "save_print"}

\* exit status of an interpreter that dies of an unhandled KeyboardInterrupt
UncaughtInterruptStatus == {1, 130}

Interrupt ==
    /\ pc # "exit"
    /\ interrupted' = TRUE
    /\ failure' = "interrupt:" \o pc
    /\ pc' = "exit"
    /\ IF pc \in TryBlock
       THEN exitStatus' = <<0>>
       ELSE \E st \in UncaughtInterruptStatus : exitStatus' = <<st>>
    /\ IF pc = "save_dump"
       THEN \E left \in {EmptyFile, PartialFile} :
               fs' = [fs EXCEPT ![OutputPath(json_file_path)] = left]
       ELSE UNCHANGED fs
    /\ UNCHANGED <<startupVars, argVars, testVars, runVars, writes, now, dispatches,
                   convertCalls>>

----------------------------------------------------------------------------
(* Specifications *)

Next ==
    \/ LoadCredential
    \/ DiscoverModels
    \/ ParseArgs
    \/ ReadQuestion
    \/ InitTest
    \/ ConvertToToon
    \/ LoadJson
    \/ LoadToon
    \/ QueryJson
    \/ Sleep
    \/ QueryToon
    \/ Assemble
    \/ DisplayResults
    \/ SaveOpen
    \/ SaveDump
    \/ SavePrint
    \/ Interrupt

Spec == Init /\ [][Next]_vars

TypeOK ==
    /\ pc \in {"start", "discover", "main", "prompt", "exit"} \cup TryBlock
    /\ Len(exitStatus) <= 1
    /\ convertCalls \in 0..1

----------------------------------------------------------------------------
(* Model resolution on its own, over every bounded listing *)

DiscoverAll == Discover(AllListings)

NextResolver ==
    \/ LoadCredential
    \/ DiscoverAll

SpecResolver == Init /\ [][NextResolver]_vars

----------------------------------------------------------------------------
(* The Reporter on its own, over every pair of latencies *)

DataJson == MkPath(".", <<"data", "json">>)

\* a leg of run_test as it stands when display_results is called
LegResult(failed, raw, t) ==
    IF failed THEN QueryFailed(<<"Timeout">>) ELSE QueryOk(raw, 0, t)

InitVerdict ==
    /\ pc = "display"
    /\ GOOGLE_API_KEY = TRUE
    /\ models = ListingFailed
    /\ AVAILABLE_MODEL = FallbackModel
    /\ json_file = DataJson
    /\ question = <<"q">>
    /\ questionSource = "argv"
    /\ typed = <<>>
    /\ json_file_path = DataJson
    /\ toon_file_path = ToonPath(DataJson)
    /\ json_content = Dataset("d1")
    /\ toon_content = ToonOf(Dataset("d1"))
    /\ \E jf \in BOOLEAN, tf \in BOOLEAN, jt \in 0..MaxLatency, tt \in 0..MaxLatency :
          LET jr == LegResult(jf, <<"Yes">>, jt)
              tr == LegResult(tf, <<"yes">>, tt)
              toonStart == jt + SleepDelay
          IN  /\ json_result = jr
              /\ toon_result = tr
              /\ results = Record(<<"q">>, jr, tr)
              /\ now = toonStart + tt
              /\ dispatches =
                    << [content |-> Dataset("d1"), format |-> "JSON", question |-> <<"q">>,
                        model |-> FallbackModel, start |-> 0, failed |-> jf],
                       [content |-> ToonOf(Dataset("d1")), format |-> "TOON",
                        question |-> <<"q">>, model |-> FallbackModel,
                        start |-> toonStart, failed |-> tf] >>
    /\ printed = None
    /\ fs = [InitialFs(FALSE) EXCEPT ![ToonPath(DataJson)] = ToonOf(Dataset("d1"))]
    /\ writes = {ToonPath(DataJson)}
    /\ convertCalls = 1
    /\ exitStatus = <<>>
    /\ interrupted = FALSE
    /\ failure = "none"

NextVerdict == DisplayResults

SpecVerdict == InitVerdict /\ [][NextVerdict]_vars

----------------------------------------------------------------------------
(* Notions used by the properties *)

\* the state of the Comparison Run: 0 INIT, 1 CONVERTED, 2 LOADED,
\* 3 JSON_QUERIED, 4 TOON_QUERIED, 5 RECORDED
RunState ==
    IF results # None THEN 5
    ELSE IF toon_result # None THEN 4
    ELSE IF json_result # None THEN 3
    ELSE IF toon_content # None THEN 2
    ELSE IF toon_file_path \in writes THEN 1
    ELSE 0

Exited == pc = "exit"

\* the record has reached display_results
HandedToReporter ==
    \/ pc \in {"display", "save_open", "save_dump", "save_print"}
    \/ Exited /\ failure \in {"none", "display", "save_open", "save_dump", "save_print"}

IsErrorText(text) == text # <<>> /\ Head(text) = "Error: "

ResultFileWritten == \E p \in writes : p.name = DefaultOutputFile

RecordFields == {"question", "json_response", "json_time", "toon_response", "toon_time"}

----------------------------------------------------------------------------
(* Properties *)

\* C1: whatever the outcomes of the two dispatch calls, a run that has
\* dispatched once and was not interrupted dispatches twice, assembles a
\* record with all five fields and hands it to the Reporter; a failed leg
\* is recorded as an "Error: ..." text with time 0.
DegradedRunCompletes ==
    /\ json_result # None =>
          /\ Len(dispatches) >= 1
          /\ dispatches[1].failed =>
                IsErrorText(json_result.response) /\ json_result.time = 0
    /\ toon_result # None =>
          /\ Len(dispatches) = 2
          /\ dispatches[2].failed =>
                IsErrorText(toon_result.response) /\ toon_result.time = 0
    /\ (Len(dispatches) = 1 /\ ~interrupted) => pc \in {"sleep", "query_toon"}
    /\ (Len(dispatches) = 2 /\ ~interrupted /\ pc # "assemble") =>
          /\ HandedToReporter
          /\ DOMAIN results = RecordFields
          /\ results = [question |-> question,
                        json_response |-> json_result.response,
                        json_time |-> json_result.time,
                        toon_response |-> toon_result.response,
                        toon_time |-> toon_result.time]
    /\ \A p \in AllPaths : fs[p].kind = "results" => fs[p].record = results

BothLegsFailedPersisted ==
    /\ Exited /\ exitStatus = <<0>> /\ ~interrupted
    /\ Len(dispatches) = 2 /\ dispatches[1].failed /\ dispatches[2].failed
    /\ results.json_time = 0 /\ results.toon_time = 0
    /\ IsErrorText(results.json_response) /\ IsErrorText(results.toon_response)
    /\ fs[OutputPath(json_file_path)] = ResultFile(results)

\* C2: the TOON dispatch starts at least the configured delay after the
\* start of the JSON dispatch, whether or not the JSON dispatch failed.
InterCallDelayObserved ==
    Len(dispatches) = 2 => dispatches[2].start - dispatches[1].start >= SleepDelay

DelayAfterFailedJsonLeg ==
    /\ Len(dispatches) = 2
    /\ dispatches[1].failed
    /\ dispatches[2].start - dispatches[1].start = SleepDelay

\* C3: every fatal failure ends the process with status 1 and without a
\* result file written by the run.
FatalCauses ==
    {"credential", "file_not_found", "bad_extension", "converter", "read_json",
     "read_toon", "display", "save_open", "save_dump", "save_print"}

FatalExitLeavesNoOutput ==
    (Exited /\ failure \in FatalCauses) =>
        exitStatus = <<1>> /\ ~ResultFileWritten

\* C4: an interrupt at any point ends the process with status 0 and leaves
\* no partial result file.
InterruptPoints ==
    {"discover", "prompt", "convert", "load_json", "load_toon", "query_json",
     "sleep", "query_toon", "display", "save_open", "save_dump", "save_print"}

InterruptExitsCleanly ==
    (Exited /\ failure \in {"interrupt:" \o at : at \in InterruptPoints}) =>
        /\ exitStatus = <<0>>
        /\ \A p \in writes : p.name = DefaultOutputFile => fs[p].kind = "results"

\* C5: an interactively entered question that is empty or only whitespace
\* ends the process with status 1 before any conversion, dispatch or write.
EmptyInteractiveQuestionExits ==
    (typed # <<>> /\ \A i \in 1..Len(typed[1]) : typed[1][i] = Space) =>
        /\ Exited
        /\ exitStatus = <<1>>
        /\ convertCalls = 0
        /\ dispatches = <<>>
        /\ writes = {}

WhitespaceQuestionEntered ==
    /\ typed = << <<Space>> >>
    /\ Exited
    /\ failure = "empty_question"

\* Eligibility as the discovery decides it: a name containing "gemini" in
\* any case, and generation methods that are missing, empty or include
\* generateContent
Eligible(m) ==
    /\ m.name \notin {NoAttr, NoneValue}
    /\ ContainsGemini(m.name)
    /\ m.methods \in {NoAttr, "empty", "generateContent"}

\* the filter raises on this model unless it stopped earlier
RaisesInFilter(m) ==
    \/ m.name = NoneValue
    \/ m.name # NoAttr /\ ContainsGemini(m.name) /\ m.methods = NoneValue

DiscoveryRaises(listing) ==
    \/ ~listing.ok
    \/ \E i \in 1..Len(listing.models) : RaisesInFilter(listing.models[i])

EligibleIndexes(listing) ==
    {i \in 1..Len(listing.models) : Eligible(listing.models[i])}

FirstEligible(listing) ==
    listing.models[CHOOSE i \in EligibleIndexes(listing) :
                      \A j \in EligibleIndexes(listing) : i <= j].name

Resolved == models # None

RunShape ==
    /\ convertCalls <= 1
    /\ Len(dispatches) <= 2
    /\ Len(dispatches) >= 1 =>
          /\ RunState >= 3
          /\ dispatches[1].format = "JSON"
          /\ dispatches[1].content = json_content
          /\ json_content \in {Dataset(b) : b \in {"d1", "d2", "old"}}
    /\ Len(dispatches) = 2 =>
          /\ RunState >= 4
          /\ dispatches[2].format = "TOON"
          /\ dispatches[2].content = toon_content
          /\ toon_content = ToonOf(json_content)
    /\ RunState >= 1 => convertCalls = 1
    /\ RunState >= 3 => Len(dispatches) >= 1
    /\ RunState >= 4 => Len(dispatches) = 2
    /\ results # None => json_result # None /\ toon_result # None

LinearRun ==
    /\ []RunShape
    /\ [][RunState' = RunState \/ RunState' = RunState + 1]_vars

RunRecorded ==
    /\ RunState = 5
    /\ Exited
    /\ convertCalls = 1
    /\ Len(dispatches) = 2

\* C8: the latency verdict is SIMILAR exactly when the two latencies differ
\* by less than the threshold; otherwise it names TOON as faster when
\* json_time exceeds toon_time and JSON as faster when it does not.
LatencyVerdictBoundary ==
    printed # None =>
        LET jt == results.json_time
            tt == results.toon_time
            close == jt - tt < SimilarThreshold /\ tt - jt < SimilarThreshold
        IN  /\ printed.latency = "SIMILAR" <=> close
            /\ (~close /\ jt > tt) => printed.latency = "TOON_FASTER"
            /\ (~close /\ ~(jt > tt)) => printed.latency = "JSON_FASTER"

DifferenceAtThreshold ==
    /\ printed # None
    /\ results.json_time - results.toon_time = SimilarThreshold
    /\ printed.latency = "TOON_FASTER"

\* C9: no step of a run writes to the dataset file it was given.
DatasetNeverWritten ==
    json_file_path \notin writes

\* C10: every dispatch call and the record carry the same, non-empty
\* question.
QuestionNeverEmpty ==
    /\ \A i \in 1..Len(dispatches) :
          /\ dispatches[i].question # <<>>
          /\ dispatches[i].question = question
    /\ results # None => results.question = question /\ question # <<>>

====
